---------------------------- MODULE Spec2Model ----------------------------
(***************************************************************************)
(* A model of the YAML-driven pre-cleaning pipeline:                       *)
(*   - yaml_pipeline/action_registry.py : ACTION_REGISTRY, register_action *)
(*   - yaml_pipeline/config_schema.py   : the pydantic rule schema         *)
(*   - yaml_pipeline/config_loader.py   : load_yaml, validate_config_dict, *)
(*                                        crosscheck_actions,              *)
(*                                        load_and_validate                *)
(*   - data_pipeline/transform_precleaning.py : the registered actions     *)
(***************************************************************************)
EXTENDS Integers, Sequences, FiniteSets, TLC

VARIABLES
    registry,       \* ACTION_REGISTRY: action name -> implementation
    moduleLoaded,   \* transform_precleaning has been imported to its end
    configFile,     \* the configuration document on disk
    op,             \* the operation the last step performed
    regCall,        \* the last register_action call and its outcome
    loadCall,       \* the last load_and_validate call and its outcome
    call,           \* the action function called, its input and parameters
    result,         \* what the called action function returned or raised
    inputsAfter,    \* the datasets passed to the action, as the call left them
    plan,           \* the validated rule list of the pipeline run
    table,          \* the run's table: alias -> the rule that produced it
    pc,             \* the index of the rule the engine executes next
    runState,       \* "idle", "running", "done" or "failed"
    readLog,        \* every alias read so far, with whether it was bound
    executed        \* the indices of the rules executed so far, in order

cfgVars == <<registry, moduleLoaded, configFile, op, regCall, loadCall>>

actVars == <<call, result, inputsAfter>>

engVars == <<plan, table, pc, runState, readLog, executed>>

vars == <<cfgVars, actVars, engVars>>

(***************************************************************************)
(* Generic helpers                                                         *)
(***************************************************************************)
Range(s) == {s[i] : i \in 1..Len(s)}

RECURSIVE SeqsUpTo(_, _)
SeqsUpTo(S, n) ==
    IF n = 0 THEN {<<>>}
    ELSE LET shorter == SeqsUpTo(S, n - 1)
         IN  shorter \cup {Append(s, x) : s \in {t \in shorter : Len(t) = n - 1}, x \in S}

(***************************************************************************)
(* Bounds of the model                                                     *)
(***************************************************************************)
MaxRules == 2
MaxRows == 5
MaxInputs == 2
MaxPlan == 3

(***************************************************************************)
(* action_registry.py                                                      *)
(***************************************************************************)
\* The decorators of transform_precleaning.py, in the order the module body
\* runs them; each registers the function of the same name.
ModuleActions ==
    <<"convert_crs", "rename_columns", "strip_whitespace", "typo_mapping",
      "convert_datetime", "droprows", "drop_by_pairs", "explode_village",
      "split_duplicates", "dissolve_villages", "concat_finalize">>

\* Names and implementations other callers of register_action pass.
UserNames == {"rename_columns", "my_action"}
UserFuncs == {"f1", "f2"}

EmptyRegistry == [n \in {} |-> "none"]

\* A wrong register_action: the second registration silently wins.
register_action_overwrite(reg, func_name, func) ==
    [registry |-> [n \in (DOMAIN reg) \cup {func_name} |->
                        IF n = func_name THEN func ELSE reg[n]],
     raised   |-> FALSE]

\* register_action(func_name)(func): the registry afterwards, and whether
\* the call raised ValueError.
register_action(reg, func_name, func) ==
    IF func_name \in DOMAIN reg
    THEN [registry |-> reg, raised |-> TRUE]
    ELSE [registry |-> [n \in (DOMAIN reg) \cup {func_name} |->
                            IF n = func_name THEN func ELSE reg[n]],
          raised   |-> FALSE]

\* Running the body of transform_precleaning.py from its i-th decorator on:
\* the first register_action that raises aborts the import.
RECURSIVE RunDecorators(_, _)
RunDecorators(reg, i) ==
    IF i > Len(ModuleActions)
    THEN [registry |-> reg, raised |-> FALSE, at |-> "none"]
    ELSE LET r == register_action(reg, ModuleActions[i], ModuleActions[i])
         IN  IF r.raised
             THEN [registry |-> r.registry, raised |-> TRUE, at |-> ModuleActions[i]]
             ELSE RunDecorators(r.registry, i + 1)


(***************************************************************************)
(* config_schema.py                                                        *)
(*                                                                         *)
(* A document is modelled by the keys it holds at each level.  A rule is a *)
(* record                                                                  *)
(*   keys   : the keys of the rule mapping,                                *)
(*   action : the value of its "action" key ("" when the key is absent),   *)
(*   type   : the value of its "type" key,                                 *)
(*   params : the keys of its "parameters" mapping,                        *)
(*   bad    : the keys of "parameters" whose value has the wrong type.     *)
(***************************************************************************)
\* The tags of the discriminated union Rule, in the order of the Union.
SchemaTags ==
    <<"convert_crs", "rename_columns", "strip_whitespace", "typo_mapping",
      "convert_datetime", "dropnulls", "drop_by_pairs", "explode_village",
      "split_duplicates", "dissolve_villages", "concat_finalize">>

\* The Literal of BaseRule.type.
RuleTypes ==
    {"schema-level", "row-level", "column-level", "data-type-level",
     "domain-specific-transformations", "validation-sanity-checks"}

\* BaseRule's fields followed by the fields each *Rule class adds.
RuleFields == <<"task_name", "description", "type", "action", "parameters">>

\* PrecleaningRules and RootConfig.
BlockFields == <<"description", "rules">>
RootFields == <<"precleaning_rules">>

\* The fields of the *Params class bound to a tag, in declaration order.
ParamFields(tag) ==
    CASE tag = "convert_crs"       -> <<"to_crs">>
      [] tag = "rename_columns"    -> <<"mappings">>
      [] tag = "strip_whitespace"  -> <<"dtype", "remove_newlines">>
      [] tag = "typo_mapping"      -> <<"mode", "columns">>
      [] tag = "convert_datetime"  -> <<"columns", "regex", "shift", "format",
                                        "cast_to", "errors">>
      [] tag = "dropnulls"         -> <<"index">>
      [] tag = "drop_by_pairs"     -> <<"index_name", "columns", "exclude_pairs">>
      [] tag = "explode_village"   -> <<"source_column", "delimiter",
                                        "keep_original_as", "sort_by",
                                        "reset_index", "new_index">>
      [] tag = "split_duplicates"  -> <<"subset", "output_aliases",
                                        "sort_duplicates_by">>
      [] tag = "dissolve_villages" -> <<"input", "where", "by",
                                        "aggregation_rules">>
      [] tag = "concat_finalize"   -> <<"input", "ignore_index", "sort_by",
                                        "reset_index", "index_name",
                                        "output_alias">>
      [] OTHER                     -> <<>>

\* The order in which the keys of a mapping appear in a document (a mapping
\* of the model is a set of keys; pydantic reports unknown keys in input
\* order).
KeyOrder ==
    <<"precleaning_rules", "description", "rules", "task_name", "type",
      "action", "parameters", "to_crs", "mappings", "dtype",
      "remove_newlines", "mode", "columns", "regex", "shift", "format",
      "cast_to", "errors", "index", "index_name", "exclude_pairs",
      "source_column", "delimiter", "keep_original_as", "sort_by",
      "reset_index", "new_index", "subset", "output_aliases",
      "sort_duplicates_by", "input", "where", "by", "aggregation_rules",
      "ignore_index", "output_alias", "not_in", "bogus", "extra_root">>

\* One entry of ValidationError.errors(): the location and the message.
Err(loc, msg) == [loc |-> loc, msg |-> msg]

\* "extra": "forbid" switched off: unknown keys are ignored.
ExtraIgnored(loc, declared, keys) == <<>>

\* model_config = {"extra": "forbid"}: one error per key that is no field.
ExtraForbidden(loc, declared, keys) ==
    LET unknown(k) == k \in keys /\ k \notin Range(declared)
        x == SelectSeq(KeyOrder, unknown)
    IN  [i \in 1..Len(x) |-> Err(Append(loc, x[i]), "Extra inputs are not permitted")]

\* The errors of the *Params model of `tag` at `loc`: per field, in
\* declaration order, a missing field or an ill-typed value; then the
\* unknown keys.
RECURSIVE ParamFieldErrors(_, _, _, _)
ParamFieldErrors(loc, r, fields, i) ==
    IF i > Len(fields) THEN <<>>
    ELSE LET f == fields[i]
             here == IF f \notin r.params
                     THEN <<Err(Append(loc, f), "Field required")>>
                     ELSE IF f \in r.bad
                     THEN <<Err(Append(loc, f), "Input should be a valid value")>>
                     ELSE <<>>
         IN  here \o ParamFieldErrors(loc, r, fields, i + 1)

ParamsErrors(loc, r) ==
    ParamFieldErrors(loc, r, ParamFields(r.action), 1)
        \o ExtraForbidden(loc, ParamFields(r.action), r.params)

\* The errors of the *Rule model the tag selected, at `loc`.
RECURSIVE RuleFieldErrors(_, _, _)
RuleFieldErrors(loc, r, i) ==
    IF i > Len(RuleFields) THEN <<>>
    ELSE LET f == RuleFields[i]
             here ==
                 IF f \notin r.keys
                 THEN <<Err(Append(loc, f), "Field required")>>
                 ELSE IF f = "type" /\ r.type \notin RuleTypes
                 THEN <<Err(Append(loc, f), "Input should be one of the rule types")>>
                 ELSE IF f = "parameters"
                 THEN ParamsErrors(Append(loc, f), r)
                 ELSE <<>>
         IN  here \o RuleFieldErrors(loc, r, i + 1)

\* A discriminated union that tries every member on an unknown tag and
\* reports nothing for it.
RuleErrorsTagUnchecked(loc, r) ==
    IF "action" \notin r.keys \/ r.action \notin Range(SchemaTags)
    THEN <<>>
    ELSE RuleFieldErrors(Append(loc, r.action), r, 1)
            \o ExtraForbidden(Append(loc, r.action), RuleFields, r.keys)

\* Rule = Annotated[Union[...], Field(discriminator="action")]: the tag is
\* read first; without a tag of the union the rule gets that one error and
\* none of its fields is looked at.  The tag is part of the location of the
\* errors of the member it selects.
RuleErrors(loc, r) ==
    IF "action" \notin r.keys
    THEN <<Err(loc, "Unable to extract tag using discriminator 'action'")>>
    ELSE IF r.action \notin Range(SchemaTags)
    THEN <<Err(loc, "Input tag found using 'action' does not match any of the expected tags")>>
    ELSE RuleFieldErrors(Append(loc, r.action), r, 1)
            \o ExtraForbidden(Append(loc, r.action), RuleFields, r.keys)

\* rules: list[Rule], the errors of every item, item by item (0-based).
RECURSIVE RulesErrors(_, _, _)
RulesErrors(loc, rules, i) ==
    IF i > Len(rules) THEN <<>>
    ELSE RuleErrors(Append(loc, ToString(i - 1)), rules[i])
            \o RulesErrors(loc, rules, i + 1)

\* PrecleaningRules at `loc`.
BlockErrors(loc, doc) ==
    (IF "description" \notin doc.blockKeys
     THEN <<Err(Append(loc, "description"), "Field required")>> ELSE <<>>)
    \o (IF "rules" \notin doc.blockKeys
        THEN <<Err(Append(loc, "rules"), "Field required")>>
        ELSE RulesErrors(Append(loc, "rules"), doc.rules, 1))
    \o ExtraForbidden(loc, BlockFields, doc.blockKeys)

\* RootConfig.model_validate(cfg): every error of the document.
RootErrors(doc) ==
    (IF "precleaning_rules" \notin doc.rootKeys
     THEN <<Err(<<"precleaning_rules">>, "Field required")>>
     ELSE BlockErrors(<<"precleaning_rules">>, doc))
    \o ExtraForbidden(<<>>, RootFields, doc.rootKeys)

(***************************************************************************)
(* config_loader.py                                                        *)
(*                                                                         *)
(* A document is a record                                                  *)
(*   kind      : what yaml.safe_load makes of the file,                    *)
(*   rootKeys  : the keys of the root mapping,                             *)
(*   blockKeys : the keys of the mapping under "precleaning_rules",        *)
(*   rules     : the items of its "rules" list.                            *)
(***************************************************************************)
NoError == "none"

\* load_yaml(path): the exception it raises, NoError when it returns data.
load_yaml(doc) ==
    CASE doc.kind = "malformed"   -> "YAMLError"
      [] doc.kind = "empty"       -> "ValueError"
      [] doc.kind = "non_mapping" -> "TypeError"
      [] OTHER                    -> NoError

\* A validate_config_dict that raises on the first error alone.
validate_first_error_only(doc) ==
    LET errs == RootErrors(doc)
    IN  IF errs = <<>>
        THEN [error |-> NoError, message |-> <<>>, rules |-> doc.rules]
        ELSE [error   |-> "ValueError",
              message |-> <<Err(<<>>, "[YAML Schema Validation Error]"), errs[1]>>,
              rules   |-> <<>>]

\* validate_config_dict(cfg): the RootConfig (its rule list), or ValueError
\* with the header line followed by one line per entry of e.errors().
validate_config_dict(doc) ==
    LET errs == RootErrors(doc)
    IN  IF errs = <<>>
        THEN [error |-> NoError, message |-> <<>>, rules |-> doc.rules]
        ELSE [error   |-> "ValueError",
              message |-> <<Err(<<>>, "[YAML Schema Validation Error]")>> \o errs,
              rules   |-> <<>>]

(***************************************************************************)
(* difflib.get_close_matches, as crosscheck_actions calls it               *)
(*                                                                         *)
(* TLA+ strings have no characters, so a name is looked up in Chars.       *)
(***************************************************************************)
\* The characters of a name.
Chars(name) ==
    CASE name = "convert_crs" ->
            <<"c", "o", "n", "v", "e", "r", "t", "_", "c", "r", "s">>
      [] name = "rename_columns" ->
            <<"r", "e", "n", "a", "m", "e", "_", "c", "o", "l", "u", "m", "n", "s">>
      [] name = "strip_whitespace" ->
            <<"s", "t", "r", "i", "p", "_", "w", "h", "i", "t", "e", "s", "p", "a", "c", "e">>
      [] name = "typo_mapping" ->
            <<"t", "y", "p", "o", "_", "m", "a", "p", "p", "i", "n", "g">>
      [] name = "convert_datetime" ->
            <<"c", "o", "n", "v", "e", "r", "t", "_", "d", "a", "t", "e", "t", "i", "m", "e">>
      [] name = "droprows" ->
            <<"d", "r", "o", "p", "r", "o", "w", "s">>
      [] name = "dropnulls" ->
            <<"d", "r", "o", "p", "n", "u", "l", "l", "s">>
      [] name = "drop_by_pairs" ->
            <<"d", "r", "o", "p", "_", "b", "y", "_", "p", "a", "i", "r", "s">>
      [] name = "explode_village" ->
            <<"e", "x", "p", "l", "o", "d", "e", "_", "v", "i", "l", "l", "a", "g", "e">>
      [] name = "split_duplicates" ->
            <<"s", "p", "l", "i", "t", "_", "d", "u", "p", "l", "i", "c", "a", "t", "e", "s">>
      [] name = "dissolve_villages" ->
            <<"d", "i", "s", "s", "o", "l", "v", "e", "_", "v", "i", "l", "l", "a", "g", "e", "s">>
      [] name = "concat_finalize" ->
            <<"c", "o", "n", "c", "a", "t", "_", "f", "i", "n", "a", "l", "i", "z", "e">>
      [] name = "my_action" ->
            <<"m", "y", "_", "a", "c", "t", "i", "o", "n">>
      [] name = "convert_cr" ->
            <<"c", "o", "n", "v", "e", "r", "t", "_", "c", "r">>
      [] OTHER -> <<>>

\* The characters of the names, in the order of their code points.
Alphabet ==
    <<"_", "a", "b", "c", "d", "e", "f", "g", "h", "i", "j", "k", "l", "m",
      "n", "o", "p", "q", "r", "s", "t", "u", "v", "w", "x", "y", "z">>

Code(ch) == CHOOSE i \in 1..Len(Alphabet) : Alphabet[i] = ch

\* a > b for two Python strings.
RECURSIVE StrGreater(_, _)
StrGreater(a, b) ==
    IF a = <<>> THEN FALSE
    ELSE IF b = <<>> THEN TRUE
    ELSE IF a[1] # b[1] THEN Code(a[1]) > Code(b[1])
    ELSE StrGreater(Tail(a), Tail(b))

\* The length of the block on which a from i and b from j agree.
RECURSIVE RunLength(_, _, _, _)
RunLength(a, b, i, j) ==
    IF i > Len(a) \/ j > Len(b) THEN 0
    ELSE IF a[i] # b[j] THEN 0
    ELSE 1 + RunLength(a, b, i + 1, j + 1)

\* SequenceMatcher.find_longest_match without junk: the longest block
\* a[i .. i+k-1] = b[j .. j+k-1]; of the longest blocks the one that starts
\* earliest in a, and of those the one that starts earliest in b.
find_longest_match(a, b) ==
    LET pairs == (1..Len(a)) \X (1..Len(b))
        run   == [p \in pairs |-> RunLength(a, b, p[1], p[2])]
        k     == CHOOSE n \in 0..Len(a) :
                    /\ \A p \in pairs : run[p] <= n
                    /\ n = 0 \/ \E p \in pairs : run[p] = n
        at    == {p \in pairs : run[p] = k}
        i     == CHOOSE x \in {p[1] : p \in at} : \A p \in at : x <= p[1]
        j     == CHOOSE y \in {p[2] : p \in {q \in at : q[1] = i}} :
                    \A p \in at : p[1] = i => y <= p[2]
    IN  IF k = 0 THEN [i |-> 1, j |-> 1, k |-> 0] ELSE [i |-> i, j |-> j, k |-> k]

\* The total size of SequenceMatcher.get_matching_blocks(): the longest
\* block, then the blocks to its left and to its right.
RECURSIVE MatchingSize(_, _)
MatchingSize(a, b) ==
    IF a = <<>> \/ b = <<>> THEN 0
    ELSE LET m == find_longest_match(a, b)
         IN  IF m.k = 0 THEN 0
             ELSE m.k
                  + MatchingSize(SubSeq(a, 1, m.i - 1), SubSeq(b, 1, m.j - 1))
                  + MatchingSize(SubSeq(a, m.i + m.k, Len(a)),
                                 SubSeq(b, m.j + m.k, Len(b)))

\* The names registries and configurations hold.
Names ==
    {"convert_crs", "rename_columns", "strip_whitespace", "typo_mapping",
     "convert_datetime", "droprows", "dropnulls", "drop_by_pairs",
     "explode_village", "split_duplicates", "dissolve_villages", "concat_finalize",
     "my_action", "convert_cr"}

\* SequenceMatcher(None, x, word).ratio() is 2 * m / t: the table of m and
\* t for every candidate x and every word.
Similarity ==
    [x \in Names, word \in Names |->
        [m |-> MatchingSize(Chars(x), Chars(word)),
         t |-> Len(Chars(x)) + Len(Chars(word))]]

\* The default cutoff of get_close_matches, 0.6, as a fraction.
Cutoff == [num |-> 6, den |-> 10]

\* ratio(x, word) >= cutoff.
AboveCutoff(x, word) ==
    2 * Similarity[x, word].m * Cutoff.den >= Cutoff.num * Similarity[x, word].t

\* (ratio(x, word), x) > (ratio(y, word), y) as Python compares tuples.
ScoreGreater(x, y, word) ==
    LET sx == Similarity[x, word]
        sy == Similarity[y, word]
    IN  \/ sx.m * sy.t > sy.m * sx.t
        \/ sx.m * sy.t = sy.m * sx.t /\ StrGreater(Chars(x), Chars(y))

\* A get_close_matches that returns some candidate above the cutoff.
get_close_matches_any(word, possibilities) ==
    LET scored == {x \in possibilities : AboveCutoff(x, word)}
    IN  IF scored = {} THEN <<>>
        ELSE <<CHOOSE x \in scored : \A y \in scored : y = x \/ ScoreGreater(y, x, word)>>

\* difflib.get_close_matches(word, possibilities, n=1): the candidates with
\* a ratio of at least the cutoff, and of them the largest (ratio, name).
get_close_matches(word, possibilities) ==
    LET scored == {x \in possibilities : AboveCutoff(x, word)}
    IN  IF scored = {} THEN <<>>
        ELSE <<CHOOSE x \in scored : \A y \in scored : y = x \/ ScoreGreater(x, y, word)>>

\* A cross-check that reports every used name.
crosscheck_reports_used(rules, reg) ==
    LET used == {rules[i].action : i \in 1..Len(rules)}
    IN  IF used \ DOMAIN reg = {}
        THEN [error |-> NoError, missing |-> {}, suggestions |-> [n \in {} |-> <<>>]]
        ELSE [error |-> "ValueError", missing |-> used,
              suggestions |-> [n \in used |-> get_close_matches(n, DOMAIN reg)]]

\* crosscheck_actions(cfg): returns when no used action is missing from the
\* registry, else ValueError with one line per missing name, each with the
\* hint get_close_matches gives for it (no hint: the empty list).
crosscheck_actions(rules, reg) ==
    LET used       == {rules[i].action : i \in 1..Len(rules)}
        registered == DOMAIN reg
        missing    == used \ registered
    IN  IF missing = {}
        THEN [error |-> NoError, missing |-> {}, suggestions |-> [n \in {} |-> <<>>]]
        ELSE [error |-> "ValueError", missing |-> missing,
              suggestions |-> [n \in missing |-> get_close_matches(n, registered)]]

\* The outcome of a call that stopped in `stage` with exception `error`
\* (NoError: it returned the RootConfig with `rules`).
Outcome(calls, error, message, missing, rules) ==
    [calls       |-> calls,
     error       |-> error,
     raisedBy    |-> IF error = NoError THEN "none" ELSE calls[Len(calls)],
     message     |-> message,
     missing     |-> missing,
     suggestions |-> [n \in {} |-> <<>>],
     rules       |-> rules]

\* A load_and_validate that cross-checks the parsed document before it
\* validates it.
load_and_validate_crosscheck_first(doc, reg) ==
    LET l == load_yaml(doc)
        c == crosscheck_actions(doc.rules, reg)
        v == validate_config_dict(doc)
    IN  IF l # NoError
        THEN Outcome(<<"load_yaml">>, l, <<>>, {}, <<>>)
        ELSE IF c.error # NoError
        THEN [Outcome(<<"load_yaml", "crosscheck_actions">>,
                      c.error, <<>>, c.missing, <<>>)
                EXCEPT !.suggestions = c.suggestions]
        ELSE IF v.error # NoError
        THEN Outcome(<<"load_yaml", "crosscheck_actions", "validate_config_dict">>,
                     v.error, v.message, {}, <<>>)
        ELSE Outcome(<<"load_yaml", "crosscheck_actions", "validate_config_dict">>,
                     NoError, <<>>, {}, v.rules)

\* load_and_validate(path): load_yaml, then validate_config_dict, then
\* crosscheck_actions; the first exception ends the call.
load_and_validate(doc, reg) ==
    LET l == load_yaml(doc)
        v == validate_config_dict(doc)
        c == crosscheck_actions(v.rules, reg)
    IN  IF l # NoError
        THEN Outcome(<<"load_yaml">>, l, <<>>, {}, <<>>)
        ELSE IF v.error # NoError
        THEN Outcome(<<"load_yaml", "validate_config_dict">>,
                     v.error, v.message, {}, <<>>)
        ELSE IF c.error # NoError
        THEN [Outcome(<<"load_yaml", "validate_config_dict", "crosscheck_actions">>,
                      c.error, <<>>, c.missing, <<>>)
                EXCEPT !.suggestions = c.suggestions]
        ELSE Outcome(<<"load_yaml", "validate_config_dict", "crosscheck_actions">>,
                     NoError, <<>>, {}, v.rules)

\* Before any call of register_action and of load_and_validate.
NoCall == [name |-> "none", func |-> "none", raised |-> FALSE]

NoLoad == Outcome(<<>>, NoError, <<>>, {}, <<>>)

(***************************************************************************)
(* transform_precleaning.py: datasets                                      *)
(*                                                                         *)
(* A dataset (DataFrame / GeoDataFrame) is a record                        *)
(*   id         : the identity of the object (0: created by the call),     *)
(*   columns    : the column names, in order,                              *)
(*   rows       : the rows in order, each with its index label and its     *)
(*                values, one per column,                                  *)
(*   crs        : the coordinate reference system, NoCrs without one,      *)
(*   index_name : the name of the index,                                   *)
(*   alias      : attrs["alias"].                                          *)
(***************************************************************************)
NoCrs == "none"

\* The value Python's None is modelled by.
None == [none |-> TRUE]

Frame(id, columns, values, crs) ==
    [id         |-> id,
     columns    |-> columns,
     rows       |-> [i \in 1..Len(values) |-> [label |-> i - 1, vals |-> values[i]]],
     crs        |-> crs,
     index_name |-> "",
     alias      |-> ""]

\* A new object holding the content of df.
Copy(df) == [df EXCEPT !.id = 0]

Labels(df) == [i \in 1..Len(df.rows) |-> df.rows[i].label]

\* The position of column c of df (the first, were the name repeated).
ColIndex(df, c) ==
    CHOOSE i \in 1..Len(df.columns) :
        df.columns[i] = c /\ \A j \in 1..(i - 1) : df.columns[j] # c

Cell(df, row, c) == row.vals[ColIndex(df, c)]

\* df.loc[mask]: the rows whose position is in `keep`, in order.
RECURSIVE SelectRows(_, _, _)
SelectRows(rows, keep, i) ==
    IF i > Len(rows) THEN <<>>
    ELSE (IF i \in keep THEN <<rows[i]>> ELSE <<>>) \o SelectRows(rows, keep, i + 1)

\* sort_values(by=c): the rows in ascending order of column c, rows with
\* equal values in their input order.
RECURSIVE InsertRow(_, _, _)
InsertRow(sorted, row, ci) ==
    IF sorted = <<>> THEN <<row>>
    ELSE IF sorted[Len(sorted)].vals[ci] <= row.vals[ci]
         THEN Append(sorted, row)
         ELSE Append(InsertRow(SubSeq(sorted, 1, Len(sorted) - 1), row, ci),
                     sorted[Len(sorted)])

RECURSIVE SortRows(_, _, _)
SortRows(rows, ci, n) ==
    IF n = 0 THEN <<>>
    ELSE InsertRow(SortRows(rows, ci, n - 1), rows[n], ci)

sort_values(df, c) ==
    [df EXCEPT !.id = 0, !.rows = SortRows(df.rows, ColIndex(df, c), Len(df.rows))]

\* reset_index(drop=True): a new, unnamed index 0 .. n-1.
reset_index(df) ==
    [df EXCEPT !.id = 0,
               !.index_name = "",
               !.rows = [i \in 1..Len(df.rows) |-> [df.rows[i] EXCEPT !.label = i - 1]]]

(***************************************************************************)
(* transform_precleaning.py: convert_crs                                   *)
(***************************************************************************)
\* pyproj's reading of a user string: the reference system it names, or
\* "invalid".
ParseCrs(s) ==
    CASE s \in {"EPSG:3826", "epsg:3826"} -> "EPSG:3826"
      [] s \in {"EPSG:4326", "epsg:4326"} -> "EPSG:4326"
      [] OTHER                            -> "invalid"

\* CRS.__eq__ with a string and CRS.to_string().
CrsEquals(crs, s) == ParseCrs(s) = crs
CrsToString(crs) == crs

\* The coordinate of a point of `from` in `to`.
Reproject(x, from, to) ==
    IF from = to THEN x
    ELSE IF to = "EPSG:3826" THEN x + 100 ELSE x - 100

\* GeoDataFrame.to_crs(to_crs): a new dataset, every geometry reprojected.
to_crs(gdf, target) ==
    [gdf EXCEPT !.id = 0,
                !.crs = ParseCrs(target),
                !.rows = [i \in 1..Len(gdf.rows) |->
                            [gdf.rows[i] EXCEPT !.vals =
                                [j \in 1..Len(gdf.columns) |->
                                    IF gdf.columns[j] = "geometry"
                                    THEN Reproject(@[j], gdf.crs, ParseCrs(target))
                                    ELSE @[j]]]]]

\* A convert_crs that always converts.
convert_crs_always(gdf, parameters) ==
    IF "to_crs" \notin DOMAIN parameters \/ parameters.to_crs = "" THEN gdf
    ELSE IF gdf.crs = NoCrs \/ ParseCrs(parameters.to_crs) = "invalid" THEN None
    ELSE to_crs(gdf, parameters.to_crs)

\* convert_crs(gdf, parameters): what it returns; every exception in it is
\* caught and turned into None.
convert_crs(gdf, parameters) ==
    IF "to_crs" \notin DOMAIN parameters \/ parameters.to_crs = ""
    THEN gdf
    ELSE IF gdf.crs = NoCrs
    THEN None          \* None.to_string() raises AttributeError
    ELSE IF CrsEquals(gdf.crs, parameters.to_crs)
            \/ CrsToString(gdf.crs) = parameters.to_crs
    THEN gdf
    ELSE IF ParseCrs(parameters.to_crs) = "invalid"
    THEN None          \* to_crs raises CRSError
    ELSE to_crs(gdf, parameters.to_crs)

(***************************************************************************)
(* transform_precleaning.py: rename_columns                                *)
(***************************************************************************)
\* DataFrame.rename(columns=mappings): a new dataset.
rename(df, mappings) ==
    [df EXCEPT !.id = 0,
               !.columns = [i \in 1..Len(df.columns) |->
                               IF df.columns[i] \in DOMAIN mappings
                               THEN mappings[df.columns[i]]
                               ELSE df.columns[i]]]

\* rename_columns(df, parameters); parameters is None or a dict.
rename_columns(df, parameters) ==
    LET params   == IF parameters = None THEN [k \in {} |-> None] ELSE parameters
        mappings == IF "mappings" \in DOMAIN params THEN params.mappings
                    ELSE [k \in {} |-> ""]
    IN  IF DOMAIN mappings = {} THEN None
        ELSE rename(df, mappings)

(***************************************************************************)
(* transform_precleaning.py: split_duplicates                              *)
(***************************************************************************)
\* The value of parameters.get(key, default).
Get(parameters, key, default) ==
    IF key \in DOMAIN parameters THEN parameters[key] ELSE default

\* The values of a row in the columns of `subset`.
KeyOf(df, row, subset) ==
    [k \in 1..Len(subset) |-> Cell(df, row, subset[k])]

\* duplicated(keep="first"): only the later occurrences are marked.
duplicated_keep_first(df, subset) ==
    {i \in 1..Len(df.rows) :
        \E j \in 1..(i - 1) :
            KeyOf(df, df.rows[j], subset) = KeyOf(df, df.rows[i], subset)}

\* df.duplicated(subset=subset, keep=False) for a subset of one or more
\* columns of df: the positions of the rows whose key occurs more than once.
duplicated(df, subset) ==
    {i \in 1..Len(df.rows) :
        Cardinality({j \in 1..Len(df.rows) :
            KeyOf(df, df.rows[j], subset) = KeyOf(df, df.rows[i], subset)}) > 1}

\* split_duplicates(df, parameters).  `lib` is what pandas makes of an empty
\* subset, which the code does not decide: it raises, or marks every row of
\* a dataset of two or more rows, or marks none.
split_duplicates(df, parameters, lib) ==
    LET subsset == Get(parameters, "subset", <<>>)
        aliases == Get(parameters, "output_aliases",
                       [duplicates |-> "duplicates", unique |-> "unique"])
        sort_by == Get(parameters, "sort_duplicates_by", "")
        all     == 1..Len(df.rows)
        raises  == /\ df.rows # <<>>
                   /\ \/ Range(subsset) \ Range(df.columns) # {}
                      \/ subsset = <<>> /\ lib = "raises"
        dup_mask == IF df.rows = <<>> THEN {}
                    ELSE IF subsset = <<>>
                    THEN (IF lib = "all" /\ Len(df.rows) > 1 THEN all ELSE {})
                    ELSE duplicated(df, subsset)
        dupes0  == [Copy(df) EXCEPT !.rows = SelectRows(df.rows, dup_mask, 1)]
        unique  == [Copy(df) EXCEPT !.rows = SelectRows(df.rows, all \ dup_mask, 1)]
        dupes   == IF sort_by # "" /\ sort_by \in Range(dupes0.columns)
                   THEN sort_values(dupes0, sort_by) ELSE dupes0
        dkey    == Get(aliases, "duplicates", "duplicates")
        ukey    == Get(aliases, "unique", "unique")
    IN  IF raises
        THEN [raised |-> TRUE, dupes |-> None, unique |-> None,
              returned |-> [k \in {} |-> None]]
        ELSE [raised |-> FALSE, dupes |-> dupes, unique |-> unique,
              returned |-> [k \in {dkey, ukey} |-> IF k = ukey THEN unique ELSE dupes]]

(***************************************************************************)
(* transform_precleaning.py: concat_finalize                               *)
(***************************************************************************)
\* pd.concat(inputs, ignore_index=ignore_index) of datasets with the same
\* columns: the rows of the inputs one after the other; it raises
\* ValueError on an empty list.
RECURSIVE ConcatRows(_, _)
ConcatRows(inputs, i) ==
    IF i > Len(inputs) THEN <<>>
    ELSE inputs[i].rows \o ConcatRows(inputs, i + 1)

concat(inputs, ignore_index) ==
    LET df == [Copy(inputs[1]) EXCEPT !.rows = ConcatRows(inputs, 1)]
    IN  IF ignore_index THEN reset_index(df) ELSE df

\* A concat_finalize that resets the index before it sorts.
concat_finalize_reset_first(inputs, parameters) ==
    LET sort_by == Get(parameters, "sort_by", "")
        df1 == concat(inputs, Get(parameters, "ignore_index", FALSE))
        df2 == IF Get(parameters, "reset_index", TRUE) THEN reset_index(df1) ELSE df1
        df3 == IF sort_by # "" /\ sort_by \in Range(df2.columns)
               THEN sort_values(df2, sort_by) ELSE df2
    IN  IF inputs = <<>> THEN [raised |-> TRUE, df |-> None]
        ELSE [raised |-> FALSE, df |-> df3]

\* concat_finalize(inputs, parameters).
concat_finalize(inputs, parameters) ==
    LET sort_by      == Get(parameters, "sort_by", "")
        reset        == Get(parameters, "reset_index", TRUE)
        index_name   == Get(parameters, "index_name", "")
        ignore_index == Get(parameters, "ignore_index", FALSE)
        output_alias == Get(parameters, "output_alias", "final")
        df1 == concat(inputs, ignore_index)
        df2 == IF sort_by # "" /\ sort_by \in Range(df1.columns)
               THEN sort_values(df1, sort_by) ELSE df1
        df3 == IF reset
               THEN [reset_index(df2) EXCEPT
                        !.index_name = IF index_name # "" THEN index_name ELSE @]
               ELSE df2
    IN  IF inputs = <<>> THEN [raised |-> TRUE, df |-> None]
        ELSE [raised |-> FALSE, df |-> [df3 EXCEPT !.alias = output_alias]]

(***************************************************************************)
(* transform_precleaning.py: typo_mapping                                  *)
(*                                                                         *)
(* A cell of a text column is a string, NoneCell (Python's None) or NaN.   *)
(* A dict the code iterates over is the sequence of its items in insertion *)
(* order.  A regular expression anchored at both ends is modelled by the   *)
(* one string it matches.                                                  *)
(***************************************************************************)
NoneCell == "<None>"
NaN == "<NaN>"

\* str(v) of a cell, as astype(str) makes it.
Str(v) == IF v = NoneCell THEN "None" ELSE IF v = NaN THEN "nan" ELSE v

\* f"{col}_raw".
RawName(col) ==
    CASE col = "city" -> "city_raw"
      [] col = "town" -> "town_raw"
      [] OTHER        -> "other_raw"

\* The string the pattern matches in full.
FullMatch(pattern) ==
    CASE pattern = "^Taipie$" -> "Taipie"
      [] pattern = "^None$"   -> "None"
      [] OTHER                -> "<no match>"

\* df[c] = values: the column is replaced in df, or appended to it.
SetColumn(df, c, values) ==
    IF c \in Range(df.columns)
    THEN [df EXCEPT !.rows = [i \in 1..Len(df.rows) |->
            [df.rows[i] EXCEPT !.vals[ColIndex(df, c)] = values[i]]]]
    ELSE [df EXCEPT !.columns = Append(@, c),
                    !.rows = [i \in 1..Len(df.rows) |->
                        [df.rows[i] EXCEPT !.vals = Append(@, values[i])]]]

\* df[c]: the values of the column, row by row.
Column(df, c) == [i \in 1..Len(df.rows) |-> Cell(df, df.rows[i], c)]

\* _apply_exact: series.replace(exact_map).
apply_exact(series, exact_map) ==
    [i \in 1..Len(series) |->
        IF series[i] \in DOMAIN exact_map THEN exact_map[series[i]] ELSE series[i]]

\* _apply_regex: for each pattern in turn, astype(str).str.replace.
RECURSIVE apply_regex(_, _, _)
apply_regex(series, regex_map, k) ==
    IF k > Len(regex_map) THEN series
    ELSE LET pattern     == regex_map[k][1]
             replacement == IF regex_map[k][2] = NoneCell THEN "" ELSE regex_map[k][2]
             replaced    == [i \in 1..Len(series) |->
                                IF Str(series[i]) = FullMatch(pattern)
                                THEN replacement ELSE Str(series[i])]
         IN  apply_regex(replaced, regex_map, k + 1)

\* The body of typo_mapping's loop for the k-th item of col_rules and the
\* items after it; df is modified in place.
RECURSIVE TypoColumns(_, _, _, _)
TypoColumns(df, modes, col_rules, k) ==
    IF k > Len(col_rules) THEN df
    ELSE LET col   == col_rules[k][1]
             rules == col_rules[k][2]
             df1 == IF Get(rules, "backup", FALSE)
                    THEN SetColumn(df, RawName(col), Column(df, col)) ELSE df
             df2 == IF "exact" \in Range(modes) /\ "exact" \in DOMAIN rules
                    THEN SetColumn(df1, col, apply_exact(Column(df1, col), rules.exact))
                    ELSE df1
             df3 == IF "regex" \in Range(modes) /\ "regex" \in DOMAIN rules
                    THEN SetColumn(df2, col, apply_regex(Column(df2, col), rules.regex, 1))
                    ELSE df2
             df4 == SetColumn(df3, col, apply_exact(Column(df3, col), NoneCell :> NaN))
         IN  IF col \notin Range(df.columns)
             THEN TypoColumns(df, modes, col_rules, k + 1)
             ELSE TypoColumns(df4, modes, col_rules, k + 1)

\* typo_mapping(df, parameters): the object it returns is its argument,
\* which the loop has modified.
typo_mapping(df, parameters) ==
    LET modes     == Get(parameters, "mode", <<"exact", "regex">>)
        col_rules == Get(parameters, "columns", <<>>)
        out       == TypoColumns(df, modes, col_rules, 1)
    IN  [returned |-> out, after |-> out]

(***************************************************************************)
(* transform_precleaning.py: convert_datetime                              *)
(*                                                                         *)
(* A cell of a date column is a text [digits, tail]: the digits the text   *)
(* starts with and what follows them ("112/01/05" is the digits 1 1 2 and  *)
(* the tail "/01/05"), or, once converted, a Timestamp or NaT.             *)
(***************************************************************************)
NaT == [nat |-> TRUE]

Text(digits, tail) == [digits |-> digits, tail |-> tail]

Timestamp(year, tail) == [year |-> year, monthday |-> tail]

\* The number a sequence of decimal digits writes, and back.
RECURSIVE ToInt(_)
ToInt(digits) ==
    IF digits = <<>> THEN 0
    ELSE 10 * ToInt(SubSeq(digits, 1, Len(digits) - 1)) + digits[Len(digits)]

RECURSIVE ToDigits(_)
ToDigits(n) == IF n < 10 THEN <<n>> ELSE Append(ToDigits(n \div 10), n % 10)

\* str.replace(r"^(\d{3})", lambda m: str(int(m.group(1)) + year_shift)):
\* the first three digits of a text that starts with three digits are
\* replaced by their number plus the shift.
ShiftYear(v, year_shift) ==
    IF Len(v.digits) < 3 THEN v
    ELSE Text(ToDigits(ToInt(SubSeq(v.digits, 1, 3)) + year_shift)
                \o SubSeq(v.digits, 4, Len(v.digits)),
              v.tail)

\* strptime with "%Y/%m/%d": a four-digit year followed by /month/day.
Parses(v) == Len(v.digits) = 4 /\ v.tail \in {"/01/05", "/12/31"}

\* pd.to_datetime(series, format=..., errors=errors).  `lib` is the pandas
\* in use: one that still knows errors="ignore" and then hands the input
\* back when a value does not parse, or one that rejects that argument.
to_datetime(series, errors, lib) ==
    LET ok == \A i \in 1..Len(series) : Parses(series[i])
        ts == [i \in 1..Len(series) |->
                 IF Parses(series[i])
                 THEN Timestamp(ToInt(series[i].digits), series[i].tail) ELSE NaT]
    IN  CASE errors = "coerce" -> [raised |-> FALSE, values |-> ts]
          [] errors = "raise"  -> [raised |-> ~ok, values |-> ts]
          [] errors = "ignore" /\ lib = "knows_ignore"
                               -> [raised |-> FALSE,
                                   values |-> IF ok THEN ts ELSE series]
          [] OTHER             -> [raised |-> TRUE, values |-> series]

\* The body of convert_datetime's loop from the k-th column on; df is
\* modified in place, and an exception of to_datetime leaves it with the
\* shifted texts of the column it was raised for.
RECURSIVE DatetimeColumns(_, _, _, _, _, _)
DatetimeColumns(df, columns, year_shift, errors, lib, k) ==
    IF k > Len(columns) THEN [raised |-> FALSE, df |-> df]
    ELSE IF columns[k] \notin Range(df.columns)
    THEN DatetimeColumns(df, columns, year_shift, errors, lib, k + 1)
    ELSE LET col     == columns[k]
             shifted == [i \in 1..Len(df.rows) |->
                            ShiftYear(Cell(df, df.rows[i], col), year_shift)]
             df1     == SetColumn(df, col, shifted)
             dt      == to_datetime(shifted, errors, lib)
         IN  IF dt.raised THEN [raised |-> TRUE, df |-> df1]
             ELSE DatetimeColumns(SetColumn(df1, col, dt.values), columns,
                                  year_shift, errors, lib, k + 1)

\* convert_datetime(df, parameters).
convert_datetime(df, parameters, lib) ==
    LET columns    == Get(parameters, "columns", <<>>)
        year_shift == Get(parameters, "shift", 1911)
        errors     == Get(parameters, "errors", "coerce")
        out        == DatetimeColumns(df, columns, year_shift, errors, lib, 1)
    IN  IF out.raised
        THEN [raised |-> TRUE, returned |-> None, after |-> out.df]
        ELSE [raised |-> FALSE, returned |-> out.df, after |-> out.df]

(***************************************************************************)
(* transform_precleaning.py: drop_by_pairs                                 *)
(***************************************************************************)
\* zip(columns, pair): it stops at the shorter of the two.
ZipLen(columns, pair) == IF Len(columns) < Len(pair) THEN Len(columns) ELSE Len(pair)

\* The condition the inner loop builds for one pair: the rows of df whose
\* values in the zipped columns equal the values of the pair.
PairCondition(df, columns, pair) ==
    {i \in 1..Len(df.rows) :
        \A k \in 1..ZipLen(columns, pair) :
            Cell(df, df.rows[i], columns[k]) = pair[k]}

\* The loops of drop_by_pairs raise ValueError at the first zipped column
\* that df does not have.
PairsRaise(df, columns, pairs) ==
    \E p \in 1..Len(pairs) :
        \E k \in 1..ZipLen(columns, pairs[p]) : columns[k] \notin Range(df.columns)

\* drop_by_pairs(df, parameters): the index is written into the column
\* index_name of df itself; the result is a new dataset without the rows
\* of the mask.
drop_by_pairs(df, parameters) ==
    LET index_name       == Get(parameters, "index_name", "prj_idx")
        columns          == Get(parameters, "columns", <<>>)
        pairs_to_exclude == Get(parameters, "not_in", <<>>)
        df1   == SetColumn(df, index_name, Labels(df))
        mask  == UNION {PairCondition(df1, columns, pairs_to_exclude[p]) :
                            p \in 1..Len(pairs_to_exclude)}
        kept  == [Copy(df1) EXCEPT
                    !.rows = SelectRows(df1.rows, (1..Len(df1.rows)) \ mask, 1)]
    IN  IF PairsRaise(df1, columns, pairs_to_exclude)
        THEN [raised |-> TRUE, returned |-> None, after |-> df1]
        ELSE [raised |-> FALSE, returned |-> kept, after |-> df1]

(***************************************************************************)
(* The documents load_and_validate is called on                            *)
(***************************************************************************)
\* The action names documents use: the tags of the schema, the registered
\* name the schema does not list, and a misspelt name.
DocTags == Range(SchemaTags) \cup {"droprows", "convert_cr"}

\* The parameters a document passes to an action: the fields of its *Params
\* class; for droprows the key the implementation reads.
DocParams(a) ==
    CASE a = "droprows"   -> <<"index">>
      [] a = "convert_cr" -> <<"to_crs">>
      [] OTHER            -> ParamFields(a)

\* The rule written as section 6 of the specification lays it out.
GoodRule(a) ==
    [keys   |-> Range(RuleFields),
     action |-> a,
     type   |-> "row-level",
     params |-> Range(DocParams(a)),
     bad    |-> {}]

\* GoodRule(a) and the rules that differ from it in one or two places.
RuleVariants(a) ==
    LET g  == GoodRule(a)
        p1 == DocParams(a)[1]
    IN  {g,
         [g EXCEPT !.params = @ \cup {"bogus"}],
         [g EXCEPT !.params = @ \ {p1}],
         [g EXCEPT !.bad = {p1}],
         [g EXCEPT !.params = @ \cup {"bogus"}, !.bad = {p1}],
         [g EXCEPT !.params = (@ \ {p1}) \cup {"not_in"}],
         [g EXCEPT !.keys = @ \cup {"bogus"}],
         [g EXCEPT !.keys = @ \ {"task_name"}],
         [g EXCEPT !.keys = @ \ {"parameters"}, !.params = {}],
         [g EXCEPT !.type = "bad-level"],
         [g EXCEPT !.keys = @ \ {"action"}, !.action = ""],
         [g EXCEPT !.keys = (@ \ {"task_name"}) \cup {"bogus"},
                   !.params = @ \cup {"bogus"}]}

AllRules == UNION {RuleVariants(a) : a \in DocTags}

\* The rules of the documents with several rules.
SomeRules ==
    {GoodRule("convert_crs"), GoodRule("rename_columns"), GoodRule("dropnulls"),
     GoodRule("droprows"), GoodRule("convert_cr"),
     [GoodRule("split_duplicates") EXCEPT !.params = @ \cup {"bogus"}],
     [GoodRule("concat_finalize") EXCEPT !.keys = @ \ {"task_name"}],
     [GoodRule("convert_cr") EXCEPT !.keys = @ \ {"description"}]}

Mapping(rootKeys, blockKeys, rules) ==
    [kind |-> "mapping", rootKeys |-> rootKeys, blockKeys |-> blockKeys,
     rules |-> rules]

NotAMapping(kind) ==
    [kind |-> kind, rootKeys |-> {}, blockKeys |-> {}, rules |-> <<>>]

\* The shapes of the root mapping and of the rules block around a rule list.
Shapes ==
    {<<{"precleaning_rules"}, {"description", "rules"}>>,
     <<{"precleaning_rules", "extra_root"}, {"description", "rules"}>>,
     <<{"precleaning_rules"}, {"description", "rules", "bogus"}>>,
     <<{"precleaning_rules"}, {"rules"}>>}

Docs ==
    {NotAMapping(k) : k \in {"malformed", "empty", "non_mapping"}}
    \cup {Mapping({"extra_root"}, {}, <<>>),
          Mapping({"precleaning_rules"}, {"description"}, <<>>)}
    \cup {Mapping(sh[1], sh[2], <<r>>) : sh \in Shapes, r \in AllRules}
    \cup {Mapping({"precleaning_rules"}, {"description", "rules"}, rs) :
            rs \in SeqsUpTo(SomeRules, MaxRules)}

\* A dict with the key k when `present`, empty otherwise.
Opt(present, k, v) == IF present THEN k :> v ELSE [x \in {} |-> None]

EmptyDict == [x \in {} |-> None]

Call(fn, inputs, parameters, lib) ==
    [fn |-> fn, inputs |-> inputs, parameters |-> parameters, lib |-> lib]

NoActionCall == Call("none", <<>>, None, "none")

Pending == [pending |-> TRUE]

(***************************************************************************)
(* The execution engine (specification, section 4.4)                       *)
(*                                                                         *)
(* A rule of the plan is the aliases its action reads and the aliases it   *)
(* binds.                                                                  *)
(***************************************************************************)
\* The alias the run is seeded with.
SeedAliases == {"input"}

\* The rules of the plans: a single-output action replacing the dataset it
\* reads, split_duplicates with its output_aliases, dissolve_villages with
\* its input and output alias, concat_finalize with its input list and
\* output_alias, and a concat_finalize naming an alias nothing binds.
PlanRules ==
    {[action |-> "rename_columns",    reads |-> {"input"}, writes |-> {"input"}],
     [action |-> "split_duplicates",  reads |-> {"input"}, writes |-> {"dups", "uniq"}],
     [action |-> "dissolve_villages", reads |-> {"dups"},  writes |-> {"dissolved"}],
     [action |-> "concat_finalize",   reads |-> {"uniq", "dissolved"}, writes |-> {"final"}],
     [action |-> "concat_finalize",   reads |-> {"uniq", "other"},     writes |-> {"final"}]}

Plans == SeqsUpTo(PlanRules, MaxPlan)

EmptyTable == [a \in {} |-> 0]

EngineIdle ==
    /\ plan = <<>>
    /\ table = EmptyTable
    /\ pc = 0
    /\ runState = "idle"
    /\ readLog = <<>>
    /\ executed = <<>>

\* An engine that hands a rule whatever the table holds.
ResolvableUnchecked(reads, tbl) == TRUE

\* Every input alias of the rule is bound in the table.
Resolvable(reads, tbl) == reads \subseteq DOMAIN tbl

\* The table after rule i has bound its outputs.
Bind(tbl, writes, i) ==
    [a \in (DOMAIN tbl) \cup writes |-> IF a \in writes THEN i ELSE tbl[a]]

\* The aliases of a set, in a fixed order, as entries of the read log.
RECURSIVE ReadEntries(_, _, _)
ReadEntries(reads, tbl, i) ==
    IF reads = {} THEN <<>>
    ELSE LET a == CHOOSE x \in reads : TRUE
         IN  <<[rule |-> i, alias |-> a, bound |-> a \in DOMAIN tbl]>>
                \o ReadEntries(reads \ {a}, tbl, i)

\* An engine that steps over the rule after the one it has executed.
NextRuleSkipping(i) == i + 2

\* The rule the engine turns to once rule i has completed: the one declared
\* after it.
NextRule(i) == i + 1

\* The initial state of a run: the table seeded, the first rule next.
InitEngine ==
    /\ registry = EmptyRegistry
    /\ moduleLoaded = FALSE
    /\ configFile = NotAMapping("none")
    /\ op = "init"
    /\ regCall = NoCall
    /\ loadCall = NoLoad
    /\ call = NoActionCall
    /\ result = Pending
    /\ inputsAfter = <<>>
    /\ plan \in Plans
    /\ table = [a \in SeedAliases |-> 0]
    /\ pc = 1
    /\ runState = "running"
    /\ readLog = <<>>
    /\ executed = <<>>

\* The step state: resolve the rule's input aliases, invoke its action and
\* bind its outputs; an unbound alias is an AliasResolutionError that
\* aborts the run.
RunRule ==
    /\ runState = "running"
    /\ pc <= Len(plan)
    /\ LET rule == plan[pc]
       IN  IF Resolvable(rule.reads, table)
           THEN /\ table' = Bind(table, rule.writes, pc)
                /\ readLog' = readLog \o ReadEntries(rule.reads, table, pc)
                /\ executed' = Append(executed, pc)
                /\ pc' = NextRule(pc)
                /\ UNCHANGED runState
           ELSE /\ runState' = "failed"
                /\ UNCHANGED <<table, readLog, executed, pc>>
    /\ UNCHANGED <<cfgVars, actVars, plan>>

\* The terminal state: after the last rule the run ends.
FinishRun ==
    /\ runState = "running"
    /\ pc > Len(plan)
    /\ runState' = "done"
    /\ UNCHANGED <<cfgVars, actVars, plan, table, pc, readLog, executed>>

NextEngine ==
    \/ RunRule
    \/ FinishRun

SpecEngine == InitEngine /\ [][NextEngine]_vars

(***************************************************************************)
(* The calls of the action functions                                       *)
(***************************************************************************)
\* convert_crs: a dataset with a geometry column, with and without a
\* reference system, and the targets a rule may name.
CrsFrames ==
    {Frame(1, <<"name", "geometry">>, <<<<1, 10>>, <<2, 20>>>>, crs) :
        crs \in {NoCrs, "EPSG:4326", "EPSG:3826"}}

CrsParameters ==
    {EmptyDict}
    \cup {[to_crs |-> t] : t \in {"", "EPSG:3826", "epsg:3826", "EPSG:4326", "garbage"}}

\* rename_columns: every mapping from some of the names a, b, zz.
RenameFrames ==
    {Frame(1, <<"a", "b">>, vs, NoCrs) : vs \in {<<>>, <<<<1, 2>>, <<3, 4>>>>}}

RenameParameters ==
    {None, EmptyDict}
    \cup {[mappings |-> m] :
            m \in UNION {[ks -> {"x", "b"}] : ks \in SUBSET {"a", "b", "zz"}}}

\* split_duplicates: every dataset of up to MaxRows rows over three kinds of
\* row.
SplitFrames ==
    {Frame(1, <<"a", "b">>, vs, NoCrs) :
        vs \in SeqsUpTo({<<1, 1>>, <<1, 2>>, <<2, 1>>}, MaxRows)}

SplitAliases ==
    {[duplicates |-> "dups", unique |-> "uniq"],
     [duplicates |-> "out", unique |-> "out"],
     [duplicates |-> "unique"]}

SplitParameters ==
    {Opt(s # <<>>, "subset", s) @@ Opt(a # EmptyDict, "output_aliases", a)
        @@ Opt(o # "", "sort_duplicates_by", o) :
        s \in {<<>>, <<"a">>, <<"a", "b">>, <<"zz">>},
        a \in SplitAliases \cup {EmptyDict},
        o \in {"", "b"}}

SplitCalls ==
    {Call("split_duplicates", <<df>>, p, lib) :
        df \in SplitFrames, p \in SplitParameters, lib \in {"raises", "all", "nothing"}}

\* concat_finalize: lists of up to MaxInputs datasets of 0, 1, 3 and 4
\* rows; the single row keeps the label it had in the dataset it was split
\* from.
ConcatFrames ==
    {Frame(1, <<"a", "b">>, <<>>, NoCrs),
     [Frame(1, <<"a", "b">>, <<<<1, 7>>>>, NoCrs) EXCEPT !.rows[1].label = 4],
     Frame(1, <<"a", "b">>, <<<<2, 1>>, <<1, 1>>, <<2, 2>>>>, NoCrs),
     Frame(1, <<"a", "b">>, <<<<3, 1>>, <<1, 2>>, <<2, 3>>, <<1, 4>>>>, NoCrs)}

ConcatParameters ==
    {[output_alias |-> "final"]
        @@ Opt(s # "", "sort_by", s) @@ Opt(r # "absent", "reset_index", r = "yes")
        @@ Opt(g # "absent", "ignore_index", g = "yes") @@ Opt(n # "", "index_name", n) :
        s \in {"", "a", "zz"}, r \in {"absent", "yes", "no"},
        g \in {"absent", "yes", "no"}, n \in {"", "idx"}}

\* typo_mapping: a text column with a misspelt value and a None, and rules
\* for it and for a column the dataset does not have.
TypoFrames ==
    {Frame(1, <<"city", "n">>, vs, NoCrs) :
        vs \in {<<>>, <<<<"Taipei", 1>>, <<"Taipie", 2>>>>,
                <<<<"Taipie", 1>>, <<NoneCell, 2>>, <<"Tainan", 3>>>>}}

TypoRules ==
    {EmptyDict,
     [exact |-> ("Taipie" :> "Taipei")],
     [backup |-> TRUE, exact |-> ("Taipie" :> "Taipei")],
     [regex |-> <<<<"^Taipie$", "Taipei">>, <<"^None$", NoneCell>>>>],
     [backup |-> TRUE]}

TypoParameters ==
    {Opt(m # <<>>, "mode", m) @@ [columns |-> <<<<c, r>>>>] :
        m \in {<<>>, <<"exact">>, <<"regex">>, <<"exact", "regex">>},
        c \in {"city", "town"}, r \in TypoRules}
    \cup {EmptyDict,
          [mode |-> <<"exact">>,
           columns |-> <<<<"town", [exact |-> ("Taipie" :> "Taipei")]>>,
                         <<"city", [exact |-> ("Taipie" :> "Taipei")]>>>>]}

\* convert_datetime: a column of local-calendar dates, one that holds a
\* standard-calendar date and one that holds a text that is no date.
DateTexts ==
    {Text(<<1, 1, 2>>, "/01/05"), Text(<<9, 9>>, "/12/31"),
     Text(<<2, 0, 2, 3>>, "/01/05"), Text(<<>>, "n/a")}

DateFrames ==
    {Frame(1, <<"date", "n">>, vs, NoCrs) :
        vs \in {<<>>} \cup {<<<<t, 1>>>> : t \in DateTexts}
               \cup {<<<<Text(<<1, 1, 2>>, "/01/05"), 1>>, <<t, 2>>>> : t \in DateTexts}}

DateParameters ==
    {[columns |-> cs, regex |-> "^(\\d{3})", shift |-> sh, format |-> "%Y/%m/%d",
      cast_to |-> "", errors |-> e] :
        cs \in {<<>>, <<"date">>, <<"day">>, <<"day", "date">>},
        sh \in {0, 1911}, e \in {"raise", "coerce", "ignore"}}
    \cup {EmptyDict, [columns |-> <<"date">>]}

TypoCalls ==
    {Call("typo_mapping", <<df>>, p, "none") : df \in TypoFrames, p \in TypoParameters}

\* drop_by_pairs: project rows by county and community; the parameters a
\* validated rule carries (exclude_pairs) and the ones the function reads
\* (not_in).
PairFrames ==
    {[Frame(1, <<"county", "comm_nm">>, vs, NoCrs) EXCEPT !.index_name = "prj_idx"] :
        vs \in {<<>>, <<<<1, 1>>>>, <<<<1, 1>>, <<1, 2>>, <<2, 1>>>>,
                <<<<1, 2>>, <<2, 2>>, <<1, 2>>>>}}

PairLists == {<<>>, <<<<1, 2>>>>, <<<<1, 1>>, <<2, 1>>>>, <<<<1>>>>, <<<<3, 3>>>>}

PairParameters ==
    {(key :> pairs) @@ [index_name |-> n, columns |-> cs] :
        key \in {"exclude_pairs", "not_in"}, pairs \in PairLists,
        n \in {"prj_idx", "county"},
        cs \in {<<"county", "comm_nm">>, <<"county">>, <<"county", "village">>}}
    \cup {EmptyDict}

Calls ==
    {Call("convert_crs", <<df>>, p, "none") : df \in CrsFrames, p \in CrsParameters}
    \cup {Call("drop_by_pairs", <<df>>, p, "none") :
            df \in PairFrames, p \in PairParameters}
    \cup {Call("convert_datetime", <<df>>, p, lib) :
            df \in DateFrames, p \in DateParameters,
            lib \in {"knows_ignore", "rejects_ignore"}}
    \cup {Call("rename_columns", <<df>>, p, "none") :
            df \in RenameFrames, p \in RenameParameters}
    \cup {c \in SplitCalls : c.lib = "raises" \/ "subset" \notin DOMAIN c.parameters}
    \cup {Call("concat_finalize", dfs, p, "none") :
            dfs \in SeqsUpTo(ConcatFrames, MaxInputs), p \in ConcatParameters}

(***************************************************************************)
(* The action functions as a state machine: one call, then its result      *)
(***************************************************************************)
InitActions ==
    /\ registry = EmptyRegistry
    /\ moduleLoaded = FALSE
    /\ configFile = NotAMapping("none")
    /\ op = "init"
    /\ regCall = NoCall
    /\ loadCall = NoLoad
    /\ (call \in Calls \/ call \in TypoCalls)
    /\ result = Pending
    /\ inputsAfter = call.inputs
    /\ EngineIdle

ConvertCrs ==
    /\ call.fn = "convert_crs"
    /\ result = Pending
    /\ result' = convert_crs(call.inputs[1], call.parameters)
    /\ UNCHANGED <<cfgVars, engVars, call, inputsAfter>>

RenameColumns ==
    /\ call.fn = "rename_columns"
    /\ result = Pending
    /\ result' = rename_columns(call.inputs[1], call.parameters)
    /\ UNCHANGED <<cfgVars, engVars, call, inputsAfter>>

SplitDuplicates ==
    /\ call.fn = "split_duplicates"
    /\ result = Pending
    /\ result' = split_duplicates(call.inputs[1], call.parameters, call.lib)
    /\ UNCHANGED <<cfgVars, engVars, call, inputsAfter>>

TypoMapping ==
    /\ call.fn = "typo_mapping"
    /\ result = Pending
    /\ LET r == typo_mapping(call.inputs[1], call.parameters)
       IN  /\ result' = r.returned
           /\ inputsAfter' = <<r.after>>
    /\ UNCHANGED <<cfgVars, engVars, call>>

ConvertDatetime ==
    /\ call.fn = "convert_datetime"
    /\ result = Pending
    /\ LET r == convert_datetime(call.inputs[1], call.parameters, call.lib)
       IN  /\ result' = [raised |-> r.raised, df |-> r.returned]
           /\ inputsAfter' = <<r.after>>
    /\ UNCHANGED <<cfgVars, engVars, call>>

DropByPairs ==
    /\ call.fn = "drop_by_pairs"
    /\ result = Pending
    /\ LET r == drop_by_pairs(call.inputs[1], call.parameters)
       IN  /\ result' = [raised |-> r.raised, df |-> r.returned]
           /\ inputsAfter' = <<r.after>>
    /\ UNCHANGED <<cfgVars, engVars, call>>

ConcatFinalize ==
    /\ call.fn = "concat_finalize"
    /\ result = Pending
    /\ result' = concat_finalize(call.inputs, call.parameters)
    /\ UNCHANGED <<cfgVars, engVars, call, inputsAfter>>

NextActions ==
    \/ ConvertCrs
    \/ RenameColumns
    \/ TypoMapping
    \/ ConvertDatetime
    \/ DropByPairs
    \/ SplitDuplicates
    \/ ConcatFinalize

SpecActions == InitActions /\ [][NextActions]_vars

(***************************************************************************)
(* The registry and the loader as a state machine                          *)
(***************************************************************************)
InitConfig ==
    /\ registry = EmptyRegistry
    /\ moduleLoaded = FALSE
    /\ configFile \in Docs
    /\ op = "init"
    /\ regCall = NoCall
    /\ loadCall = NoLoad
    /\ call = NoActionCall
    /\ result = Pending
    /\ inputsAfter = <<>>
    /\ EngineIdle

\* @register_action(func_name) applied to func by any module.
RegisterAction ==
    \E func_name \in UserNames, func \in UserFuncs :
        LET r == register_action(registry, func_name, func)
        IN  /\ registry' = r.registry
            /\ regCall' = [name |-> func_name, func |-> func, raised |-> r.raised]
            /\ op' = "register_action"
            /\ UNCHANGED <<moduleLoaded, configFile, loadCall, actVars, engVars>>

\* import data_pipeline.transform_precleaning: the module body runs its
\* decorators in order; an exception leaves the module unloaded.
ImportActions ==
    /\ ~moduleLoaded
    /\ LET r == RunDecorators(registry, 1)
       IN  /\ registry' = r.registry
           /\ moduleLoaded' = ~r.raised
           /\ regCall' = [name |-> r.at, func |-> r.at, raised |-> r.raised]
    /\ op' = "import"
    /\ UNCHANGED <<configFile, loadCall, actVars, engVars>>

\* load_and_validate(path) on the configuration document.
LoadAndValidate ==
    /\ loadCall' = load_and_validate(configFile, registry)
    /\ op' = "load_and_validate"
    /\ UNCHANGED <<registry, moduleLoaded, configFile, regCall, actVars, engVars>>

NextConfig ==
    \/ RegisterAction
    \/ ImportActions
    \/ LoadAndValidate

SpecConfig == InitConfig /\ [][NextConfig]_vars

(***************************************************************************)
(* crosscheck_actions called on a RootConfig and a registry of its own     *)
(***************************************************************************)
\* The action names of the rules: tags of the schema, and the misspelt name
\* of a RootConfig that was built or changed without validation.
CrossUsed ==
    {"convert_cr", "convert_crs", "dissolve_villages", "dropnulls",
     "typo_mapping", "convert_datetime"}

\* The names register_action has been called with.
CrossRegistered ==
    {"convert_crs", "convert_datetime", "explode_village", "droprows",
     "dissolve_villages", "my_action"}

CrossRuleLists == SeqsUpTo({GoodRule(a) : a \in CrossUsed}, MaxRules)

InitCrossCheck ==
    /\ registry \in {[n \in S |-> n] : S \in SUBSET CrossRegistered}
    /\ moduleLoaded = FALSE
    /\ configFile = NotAMapping("none")
    /\ op = "init"
    /\ regCall = NoCall
    /\ loadCall = NoLoad
    /\ call \in {Call("crosscheck_actions", rules, EmptyDict, "none") :
                    rules \in CrossRuleLists}
    /\ result = Pending
    /\ inputsAfter = <<>>
    /\ EngineIdle

\* crosscheck_actions(cfg) on the rules of cfg.
CrossCheck ==
    /\ call.fn = "crosscheck_actions"
    /\ result = Pending
    /\ result' = crosscheck_actions(call.inputs, registry)
    /\ UNCHANGED <<cfgVars, engVars, call, inputsAfter>>

NextCrossCheck == CrossCheck

SpecCrossCheck == InitCrossCheck /\ [][NextCrossCheck]_vars

(***************************************************************************)
(* Properties of the registry and the loader (SpecConfig)                  *)
(***************************************************************************)
Loaded == op = "load_and_validate"

UsedActions(doc) == {doc.rules[i].action : i \in 1..Len(doc.rules)}

\* The document has the layout of section 6 of the specification: one root
\* key, a description and a rule list, every rule with its five keys, a
\* rule type of the enumeration and the parameters of its action.
SyntacticallyValid(doc) ==
    /\ doc.kind = "mapping"
    /\ doc.rootKeys = {"precleaning_rules"}
    /\ doc.blockKeys = {"description", "rules"}
    /\ \A i \in 1..Len(doc.rules) :
        LET r == doc.rules[i]
        IN  /\ r.keys = Range(RuleFields)
            /\ r.type \in RuleTypes
            /\ r.params = Range(DocParams(r.action))
            /\ r.bad = {}

\* C1: registering a name that is already in the registry raises and leaves
\* the registry as it was; through any sequence of registrations (those of
\* the module import included) a registered name keeps the implementation
\* it was registered with first.
C1_DuplicateRegistrationRejected ==
    [][/\ (op' = "register_action" /\ regCall'.name \in DOMAIN registry)
            => (regCall'.raised /\ registry' = registry)
       /\ (op' = "import" /\ regCall'.raised)
            => regCall'.name \in DOMAIN registry
       /\ \A n \in DOMAIN registry :
            n \in DOMAIN registry' /\ registry'[n] = registry[n]]_vars

\* C1 witness: a second registration of a name under another implementation
\* has raised and the first implementation is still the registered one.
C1_Witness ==
    /\ op = "register_action"
    /\ regCall.raised
    /\ regCall.name \in DOMAIN registry
    /\ registry[regCall.name] # regCall.func

\* C2: a syntactically valid document whose every action is registered
\* loads, and the rule list returned is the declared one, in order.
C2_ValidRegisteredConfigLoads ==
    (/\ Loaded
     /\ SyntacticallyValid(configFile)
     /\ UsedActions(configFile) \subseteq DOMAIN registry)
        => (/\ loadCall.error = NoError
            /\ Len(loadCall.rules) = Len(configFile.rules)
            /\ loadCall.rules = configFile.rules)

\* C3: for a document that uses an action name missing from the registry,
\* schema validation succeeds, the cross-check is what raises, and it
\* names exactly the used names that are not registered.
C3_UnknownActionFailsInCrossCheck ==
    (/\ Loaded
     /\ SyntacticallyValid(configFile)
     /\ UsedActions(configFile) \ DOMAIN registry # {})
        => (/\ loadCall.raisedBy = "crosscheck_actions"
            /\ loadCall.missing = UsedActions(configFile) \ DOMAIN registry)

\* The document holds a key that is no field of the schema, at the root, in
\* the rules block, in a rule of a schema action or in its parameters.
HasUnknownField(doc) ==
    \/ doc.rootKeys \ Range(RootFields) # {}
    \/ /\ "precleaning_rules" \in doc.rootKeys
       /\ \/ doc.blockKeys \ Range(BlockFields) # {}
          \/ /\ "rules" \in doc.blockKeys
             /\ \E i \in 1..Len(doc.rules) :
                  LET r == doc.rules[i]
                  IN  /\ "action" \in r.keys
                      /\ r.action \in Range(SchemaTags)
                      /\ \/ r.keys \ Range(RuleFields) # {}
                         \/ /\ "parameters" \in r.keys
                            /\ r.params \ Range(ParamFields(r.action)) # {}

\* C4: a document with an unknown field at any level fails schema
\* validation, whatever its other fields are, and the error has a line
\* saying that extra inputs are not permitted.
C4_UnknownFieldsRejected ==
    (Loaded /\ configFile.kind = "mapping" /\ HasUnknownField(configFile))
        => (/\ loadCall.raisedBy = "validate_config_dict"
            /\ loadCall.error = "ValueError"
            /\ \E k \in 2..Len(loadCall.message) :
                 loadCall.message[k].msg = "Extra inputs are not permitted")

\* C4 witness: a rule of a schema action with every declared parameter
\* present and well typed, and one undeclared parameter, was rejected for
\* that parameter alone.
C4_Witness ==
    /\ Loaded
    /\ SyntacticallyValid([configFile EXCEPT !.rules = <<>>])
    /\ Len(configFile.rules) = 1
    /\ LET r == configFile.rules[1]
       IN  /\ r.action = "concat_finalize"
           /\ r.keys = Range(RuleFields)
           /\ r.bad = {}
           /\ r.params = Range(ParamFields(r.action)) \cup {"bogus"}
    /\ loadCall.raisedBy = "validate_config_dict"
    /\ Len(loadCall.message) = 2
    /\ loadCall.message[2].loc =
         <<"precleaning_rules", "rules", "0", "concat_finalize", "parameters", "bogus">>

\* The reason a line of the error message gives.
Reason(msg) ==
    CASE msg = "Field required"                   -> "missing"
      [] msg = "Extra inputs are not permitted"   -> "unknown"
      [] msg = "Input should be a valid value"    -> "value"
      [] msg = "Input should be one of the rule types" -> "value"
      [] OTHER                                    -> "tag"

\* The violations of the keys a mapping holds against the fields declared
\* for it: <<field path, reason>>.
KeyViolations(loc, declared, keys) ==
    {<<Append(loc, f), "missing">> : f \in Range(declared) \ keys}
        \cup {<<Append(loc, k), "unknown">> : k \in keys \ Range(declared)}

\* The violations of a rule that do not depend on its action: those of its
\* own keys and of its rule type.
BaseViolations(loc, r) ==
    KeyViolations(loc, RuleFields, r.keys)
        \cup (IF "type" \in r.keys /\ r.type \notin RuleTypes
              THEN {<<Append(loc, "type"), "value">>} ELSE {})

\* The violations of the parameters of a rule of a schema action.
ParamViolations(loc, r) ==
    IF "parameters" \notin r.keys THEN {}
    ELSE KeyViolations(loc, ParamFields(r.action), r.params)
            \cup {<<Append(loc, f), "value">> :
                    f \in r.bad \cap r.params \cap Range(ParamFields(r.action))}

HasSchemaTag(r) == "action" \in r.keys /\ r.action \in Range(SchemaTags)

\* Every violation of rule i (1-based; the path names it 0-based and, for
\* a schema action, holds the action before the field).
RuleViolations(i, r) ==
    LET at == <<"precleaning_rules", "rules", ToString(i - 1)>>
    IN  IF HasSchemaTag(r)
        THEN BaseViolations(Append(at, r.action), r)
                \cup ParamViolations(at \o <<r.action, "parameters">>, r)
        ELSE {<<at, "tag">>} \cup (BaseViolations(at, r) \ {<<Append(at, "action"), "missing">>})

\* The violations of rule i that validation reports: a rule without a
\* schema action has the one violation of its tag.
ReportedRuleViolations(i, r) ==
    IF HasSchemaTag(r)
    THEN RuleViolations(i, r)
    ELSE {<<(<<"precleaning_rules", "rules", ToString(i - 1)>>), "tag">>}

DocViolations(doc, PerRule(_, _)) ==
    KeyViolations(<<>>, RootFields, doc.rootKeys)
        \cup (IF "precleaning_rules" \notin doc.rootKeys THEN {}
              ELSE KeyViolations(<<"precleaning_rules">>, BlockFields, doc.blockKeys)
                    \cup (IF "rules" \notin doc.blockKeys THEN {}
                          ELSE UNION {PerRule(i, doc.rules[i]) : i \in 1..Len(doc.rules)}))

AllViolations(doc) == DocViolations(doc, RuleViolations)

ReportedViolations(doc) == DocViolations(doc, ReportedRuleViolations)

\* The lines of the message after its header, as <<field path, reason>>.
MessageLines(message) ==
    {<<message[k].loc, Reason(message[k].msg)>> : k \in 2..Len(message)}

\* C5 as stated: a document with two or more violations, in different rules
\* or in different fields, gets one error whose message has one line per
\* violation.
C5_EveryViolationReported ==
    (/\ Loaded
     /\ configFile.kind = "mapping"
     /\ Cardinality(AllViolations(configFile)) >= 2)
        => (/\ loadCall.raisedBy = "validate_config_dict"
            /\ Len(loadCall.message) = 1 + Cardinality(AllViolations(configFile)))

\* C5 as amended: validation raises one error for all the violations of a
\* document: its message has exactly one line, with field path and reason,
\* per violation, where a rule whose action is absent or is no action of
\* the schema counts as the single violation of its tag.
C5_ViolationsReportedTogether ==
    (/\ Loaded
     /\ configFile.kind = "mapping"
     /\ ReportedViolations(configFile) # {})
        => (/\ loadCall.raisedBy = "validate_config_dict"
            /\ loadCall.error = "ValueError"
            /\ MessageLines(loadCall.message) = ReportedViolations(configFile)
            /\ Len(loadCall.message) = 1 + Cardinality(ReportedViolations(configFile)))

\* C5 witness: violations in two different rules were reported in one
\* message.
C5_Witness ==
    /\ Loaded
    /\ loadCall.raisedBy = "validate_config_dict"
    /\ Len(loadCall.message) = 3
    /\ Len(loadCall.message[2].loc) > 3
    /\ Len(loadCall.message[3].loc) > 3
    /\ loadCall.message[2].loc[3] = "0"
    /\ loadCall.message[3].loc[3] = "1"
    /\ loadCall.message[2].msg # loadCall.message[3].msg

\* The root of the document is a mapping with exactly one key.
SingleKeyRoot(doc) == doc.kind = "mapping" /\ Cardinality(doc.rootKeys) = 1

\* C12: a document that is well-formed text but whose root is not a
\* single-key mapping (an empty document, a root that is no mapping, a
\* mapping with several top-level keys) is rejected by load_yaml, before
\* validate_config_dict is called.
C12_RootShapeRejectedByParse ==
    (Loaded /\ configFile.kind # "malformed" /\ ~SingleKeyRoot(configFile))
        => /\ loadCall.error # NoError
           /\ loadCall.calls = <<"load_yaml">>

\* The functions load_and_validate called, in order.
Called(fn) == fn \in Range(loadCall.calls)

\* C15: load_and_validate calls crosscheck_actions only after load_yaml and
\* validate_config_dict have returned: when either of them raises, the
\* cross-check is not called, and a rule list is returned only when
\* validation and cross-check have both passed.
C15_CrossCheckAfterValidation ==
    Loaded
        => /\ Called("crosscheck_actions")
                => /\ loadCall.calls
                        = <<"load_yaml", "validate_config_dict", "crosscheck_actions">>
                   /\ load_yaml(configFile) = NoError
                   /\ RootErrors(configFile) = <<>>
           /\ (load_yaml(configFile) # NoError \/ RootErrors(configFile) # <<>>)
                => /\ ~Called("crosscheck_actions")
                   /\ loadCall.error # NoError
                   /\ loadCall.raisedBy \in {"load_yaml", "validate_config_dict"}
           /\ loadCall.error = NoError
                => /\ Called("validate_config_dict")
                   /\ Called("crosscheck_actions")
                   /\ RootErrors(configFile) = <<>>
                   /\ UsedActions(configFile) \subseteq DOMAIN registry
                   /\ loadCall.rules = configFile.rules

\* C15 witness: a document that fails validation and whose action is not
\* registered was rejected by validate_config_dict without a cross-check.
C15_Witness ==
    /\ Loaded
    /\ configFile.kind = "mapping"
    /\ Len(configFile.rules) = 1
    /\ configFile.rules[1].action = "concat_finalize"
    /\ "concat_finalize" \notin DOMAIN registry
    /\ loadCall.calls = <<"load_yaml", "validate_config_dict">>
    /\ loadCall.raisedBy = "validate_config_dict"
    /\ loadCall.missing = {}

\* C16: every registration precedes every load: whenever crosscheck_actions
\* reads the registry all the shipped actions are registered, and from the
\* first load_and_validate on the registry does not change.
C16_RegistrationsPrecedeLoads ==
    /\ []((Loaded /\ Called("crosscheck_actions"))
            => Range(ModuleActions) \subseteq DOMAIN registry)
    /\ [][loadCall # NoLoad => registry' = registry]_vars

(***************************************************************************)
(* Properties of the cross-check (SpecCrossCheck)                          *)
(***************************************************************************)
\* ratio(x, word) <= ratio(y, word).
NoCloser(x, y, word) ==
    Similarity[x, word].m * Similarity[y, word].t
        <= Similarity[y, word].m * Similarity[x, word].t

\* C14: the cross-check reports the used names that are not registered,
\* each with at most one suggestion; the suggestion is a registered name
\* whose similarity to the missing name reaches the cutoff and which no
\* registered name exceeds in similarity; a missing name that no registered
\* name is that close to comes without a suggestion; convert_cr against a
\* registry holding convert_crs is reported with convert_crs.
C14_SuggestionIsClosestName ==
    (call.fn = "crosscheck_actions" /\ result # Pending)
        => LET used       == {call.inputs[i].action : i \in 1..Len(call.inputs)}
               registered == DOMAIN registry
               missing    == used \ registered
           IN  /\ result.missing = missing
               /\ (result.error = NoError) <=> (missing = {})
               /\ DOMAIN result.suggestions = missing
               /\ \A n \in missing :
                    LET hint  == result.suggestions[n]
                        close == {x \in registered : AboveCutoff(x, n)}
                    IN  /\ Len(hint) <= 1
                        /\ close = {} => hint = <<>>
                        /\ close # {}
                            => /\ Len(hint) = 1
                               /\ hint[1] \in close
                               /\ \A x \in registered : NoCloser(x, hint[1], n)
               /\ ("convert_cr" \in used /\ "convert_crs" \in registered)
                    => result.suggestions["convert_cr"] = <<"convert_crs">>

\* C14 witness: convert_cr was missing from a registry holding two names
\* close enough to it and was reported with the closer one, convert_crs,
\* and typo_mapping, to which no registered name is close, was reported
\* without a suggestion.
C14_Witness ==
    /\ call.fn = "crosscheck_actions"
    /\ result # Pending
    /\ {"convert_crs", "convert_datetime"} \subseteq DOMAIN registry
    /\ AboveCutoff("convert_datetime", "convert_cr")
    /\ result.missing = {"convert_cr", "typo_mapping"}
    /\ result.suggestions["convert_cr"] = <<"convert_crs">>
    /\ result.suggestions["typo_mapping"] = <<>>

(***************************************************************************)
(* Properties of the action functions (SpecActions)                        *)
(***************************************************************************)
Returned(fn) == call.fn = fn /\ result # Pending

\* The parameters disable the renaming: none, no mappings, or an empty one.
MappingsEmpty(parameters) ==
    \/ parameters = None
    \/ "mappings" \notin DOMAIN parameters
    \/ DOMAIN parameters.mappings = {}

\* C6: rename_columns with an empty mapping, or with none, returns a
\* dataset with the column names of its input, never None.
C6_EmptyMappingReturnsDataset ==
    (Returned("rename_columns") /\ MappingsEmpty(call.parameters))
        => (result # None /\ result.columns = call.inputs[1].columns)

\* The positions of the rows of `rows` that carry label l and values v.
Occurrences(rows, l, v) ==
    {k \in 1..Len(rows) : rows[k].label = l /\ rows[k].vals = v}

\* Rows i and j of df agree on every column of subset.
Agree(df, i, j, subset) ==
    \A k \in 1..Len(subset) :
        Cell(df, df.rows[i], subset[k]) = Cell(df, df.rows[j], subset[k])

\* C7: for a subset of one or more columns of the dataset, split_duplicates
\* returns, and every input row is in exactly one of the duplicates and the
\* unique output, so that the two sizes add up to the size of the input; a
\* row is among the duplicates exactly when another row agrees with it on
\* all subset columns.
C7_SplitPartitionsInput ==
    (/\ Returned("split_duplicates")
     /\ "subset" \in DOMAIN call.parameters
     /\ Range(call.parameters.subset) \subseteq Range(call.inputs[1].columns))
        => LET df     == call.inputs[1]
               subset == call.parameters.subset
               D      == result.dupes.rows
               U      == result.unique.rows
           IN  /\ ~result.raised
               /\ Len(D) + Len(U) = Len(df.rows)
               /\ \A i \in 1..Len(df.rows) :
                    LET inD == Occurrences(D, df.rows[i].label, df.rows[i].vals)
                        inU == Occurrences(U, df.rows[i].label, df.rows[i].vals)
                    IN  /\ Cardinality(inD) + Cardinality(inU) = 1
                        /\ inD # {} <=>
                             \E j \in 1..Len(df.rows) : j # i /\ Agree(df, i, j, subset)

\* C7 witness: five rows, the first and third and the second and fourth
\* equal on the subset, gave four duplicates and one unique row.
C7_Witness ==
    /\ Returned("split_duplicates")
    /\ "subset" \in DOMAIN call.parameters
    /\ call.parameters.subset = <<"a", "b">>
    /\ Len(call.inputs[1].rows) = 5
    /\ Agree(call.inputs[1], 1, 3, <<"a", "b">>)
    /\ Agree(call.inputs[1], 2, 4, <<"a", "b">>)
    /\ ~Agree(call.inputs[1], 1, 2, <<"a", "b">>)
    /\ ~Agree(call.inputs[1], 1, 5, <<"a", "b">>)
    /\ ~Agree(call.inputs[1], 2, 5, <<"a", "b">>)
    /\ ~result.raised
    /\ Len(result.dupes.rows) = 4
    /\ Len(result.unique.rows) = 1

RECURSIVE TotalRows(_, _)
TotalRows(inputs, i) ==
    IF i > Len(inputs) THEN 0 ELSE Len(inputs[i].rows) + TotalRows(inputs, i + 1)

\* C8: concat_finalize over a list of datasets returns a dataset with as
\* many rows as the inputs have together, and with reset_index enabled its
\* row index is 0 .. n-1 in order, whatever sort_by and ignore_index are.
C8_ConcatCountAndIndex ==
    (Returned("concat_finalize") /\ call.inputs # <<>>)
        => /\ ~result.raised
           /\ Len(result.df.rows) = TotalRows(call.inputs, 1)
           /\ Get(call.parameters, "reset_index", TRUE)
                => \A i \in 1..Len(result.df.rows) : result.df.rows[i].label = i - 1

\* C8 witness: datasets of 3 and 4 rows, sorted by a column and with
\* reset_index, gave 7 rows whose order differs from the input order.
C8_Witness ==
    /\ Returned("concat_finalize")
    /\ Len(call.inputs) = 2
    /\ Len(call.inputs[1].rows) = 3
    /\ Len(call.inputs[2].rows) = 4
    /\ Get(call.parameters, "sort_by", "") = "a"
    /\ Get(call.parameters, "reset_index", FALSE)
    /\ ~result.raised
    /\ Len(result.df.rows) = 7
    /\ result.df.rows[7].label = 6
    /\ result.df.rows[1].vals # call.inputs[1].rows[1].vals

\* C9: convert_crs on a dataset whose reference system is the target
\* already returns the input object itself, unconverted.
C9_SameCrsReturnsInput ==
    (/\ Returned("convert_crs")
     /\ "to_crs" \in DOMAIN call.parameters
     /\ call.inputs[1].crs # NoCrs
     /\ ParseCrs(call.parameters.to_crs) = call.inputs[1].crs)
        => result = call.inputs[1]

\* C9 witness: the target was spelt otherwise than the dataset's own
\* reference system prints, and the input came back.
C9_Witness ==
    /\ Returned("convert_crs")
    /\ "to_crs" \in DOMAIN call.parameters
    /\ call.inputs[1].crs = "EPSG:3826"
    /\ call.parameters.to_crs = "epsg:3826"
    /\ result = call.inputs[1]
    /\ result.id = 1

\* C17: split_duplicates returns two named outputs, the duplicate rows under
\* one name and the unique rows under another, whatever output_aliases
\* holds.
C17_SplitYieldsTwoNamedOutputs ==
    (Returned("split_duplicates") /\ ~result.raised)
        => \E d, u \in DOMAIN result.returned :
            /\ d # u
            /\ result.returned[d] = result.dupes
            /\ result.returned[u] = result.unique

\* The parameters are the three fields of DropByPairsParams and no other.
PassesDropByPairsParams(parameters) ==
    DOMAIN parameters = Range(ParamFields("drop_by_pairs"))

\* The row carries, in the declared columns, the values of the pair.
EqualsPair(df, row, columns, pair) ==
    /\ Len(pair) = Len(columns)
    /\ \A k \in 1..Len(columns) : Cell(df, row, columns[k]) = pair[k]

\* C18: drop_by_pairs with validated parameters, on a dataset that has the
\* declared columns, returns the rows of its input that equal none of the
\* pairs of exclude_pairs in the declared columns, in their order, and no
\* other row.
C18_ExcludePairsApplied ==
    (/\ Returned("drop_by_pairs")
     /\ PassesDropByPairsParams(call.parameters)
     /\ Range(call.parameters.columns) \subseteq Range(call.inputs[1].columns))
        => LET df    == call.inputs[1]
               pairs == call.parameters.exclude_pairs
               keep  == {i \in 1..Len(df.rows) :
                            \A p \in 1..Len(pairs) :
                                ~EqualsPair(df, df.rows[i], call.parameters.columns,
                                            pairs[p])}
           IN  /\ ~result.raised
               /\ Labels(result.df) = Labels([df EXCEPT !.rows = SelectRows(df.rows, keep, 1)])

\* C19: when an action has returned or raised, every dataset it was passed
\* has the columns, rows and metadata it had before the call.
C19_InputsNotModified ==
    (call.fn # "none" /\ result # Pending) => inputsAfter = call.inputs

\* The call signalled its failure as an exception.
Raised(r) == "raised" \in DOMAIN r /\ r.raised

\* The action cannot do its work on the data it was given: the dataset has
\* no reference system to reproject from or the target names none, or a
\* column the parameters name is absent from the dataset.
FailsAgainstData(c) ==
    \/ /\ c.fn = "convert_crs"
       /\ Get(c.parameters, "to_crs", "") # ""
       /\ \/ c.inputs[1].crs = NoCrs
          \/ ParseCrs(c.parameters.to_crs) = "invalid"
    \/ /\ c.fn = "typo_mapping"
       /\ \E k \in 1..Len(Get(c.parameters, "columns", <<>>)) :
            c.parameters.columns[k][1] \notin Range(c.inputs[1].columns)
    \/ /\ c.fn = "convert_datetime"
       /\ Range(Get(c.parameters, "columns", <<>>)) \ Range(c.inputs[1].columns) # {}

\* C13: an action that fails against the data it receives raises an error;
\* it returns neither None nor the data left unprocessed.
C13_ActionFailureRaises ==
    (result # Pending /\ FailsAgainstData(call)) => Raised(result)

(***************************************************************************)
(* Properties of the execution engine (SpecEngine)                         *)
(***************************************************************************)
\* C10: every alias a rule has read was bound when the rule began; a run
\* fails only at a rule that names an unbound alias, and then no rule from
\* that one on has been executed; a run that is not failed has executed
\* every rule before the next one.
C10_ReadsOnlyBoundAliases ==
    /\ \A k \in 1..Len(readLog) : readLog[k].bound
    /\ executed = [i \in 1..Len(executed) |-> i]
    /\ runState = "failed"
        => /\ pc <= Len(plan)
           /\ plan[pc].reads \ DOMAIN table # {}
           /\ Len(executed) = pc - 1
    /\ \A a \in DOMAIN table : a \in SeedAliases \/ table[a] \in Range(executed)

\* C10 witness: a rule read aliases an earlier rule had produced, and the
\* run then failed at a rule naming an alias that nothing had bound.
C10_Witness ==
    /\ runState = "failed"
    /\ pc = 3
    /\ \E k \in 1..Len(readLog) :
         readLog[k].alias = "dups" /\ readLog[k].rule = 2 /\ readLog[k].bound
    /\ "other" \in plan[pc].reads

\* C11: the engine executes the rules one at a time in declared order: a
\* step executes exactly one rule, the one after the last rule that has
\* completed, and a run that has reached the terminal state has executed
\* every rule of the plan once, none skipped and none twice.
C11_RulesRunInDeclaredOrder ==
    /\ [](runState = "done" => executed = [i \in 1..Len(plan) |-> i])
    /\ [][executed' # executed
            => /\ runState = "running"
               /\ pc = Len(executed) + 1
               /\ executed' = Append(executed, pc)
               /\ pc' = pc + 1]_vars

\* C11 witness: a run of three rules, the second and third reading what
\* earlier rules bound, reached the terminal state.
C11_Witness ==
    /\ runState = "done"
    /\ Len(plan) = 3
    /\ executed = <<1, 2, 3>>
    /\ plan[1].action = "split_duplicates"
    /\ plan[2].action = "dissolve_villages"
    /\ plan[3].action = "concat_finalize"

=============================================================================
